---- MODULE Spec2Model ----
(***************************************************************************)
(* Model of the SLURM adapter cosmos/job/drm/drm_slurm.py:                 *)
(*   _qacct_raw      accounting retrieval (retry loop, sentinel, parser)   *)
(*   _qstat_all      bulk status query                                     *)
(*   filter_is_done  completion filter (a generator)                       *)
(*                                                                         *)
(* Text is a sequence of one-character strings; a multi-character element  *)
(* stands for a run of characters that are neither whitespace nor '='.     *)
(***************************************************************************)
EXTENDS Integers, Sequences, FiniteSets, TLC

\* ------------------------------------------------------------ bounds ----
MaxTimeout == 4
MaxQuantum == 3
MaxLen == 5

\* ------------------------------------------------- program constants ----
DefaultTimeout == 600
DefaultQuantum == 15

Whitespace == {" ", "\t", "\n"}
Sentinel == <<"slurm_load_jobs error: Invalid job id specified">>
JobIdKey == <<"JobId">>
JobStateKey == <<"JobState">>
Completed == <<"COMPLETED">>
\* the literals of the list in filter_is_done, as texts
FinishedStates ==
  { <<"F">>, <<"B","F">>, <<"C","A">>, <<"C","D">>, <<"N","F">>,
    <<"P","R">>, <<"R">>, <<"T","O">> }

\* ------------------------------------------------------ input domains ----
Timeouts == 1..MaxTimeout
Quanta == 1..MaxQuantum
JobIds == { <<"7">>, <<"8">> }
Alphabet == {"a", "=", " ", "\t"}

RECURSIVE TextsUpTo(_)
TextsUpTo(n) ==
  IF n = 0 THEN { << >> }
  ELSE LET S == TextsUpTo(n - 1)
       IN  S \cup { Append(t, c) : t \in {u \in S : Len(u) = n - 1}, c \in Alphabet }

\* --------------------------------------------------- string functions ----
\* str.strip(): drop leading and trailing whitespace
RECURSIVE LStrip(_)
LStrip(s) ==
  IF s = << >> THEN s
  ELSE IF Head(s) \in Whitespace THEN LStrip(Tail(s)) ELSE s

RECURSIVE RStrip(_)
RStrip(s) ==
  IF s = << >> THEN s
  ELSE IF s[Len(s)] \in Whitespace THEN RStrip(SubSeq(s, 1, Len(s) - 1)) ELSE s

Strip(s) == RStrip(LStrip(s))

\* str.split() without arguments: the maximal runs of non-whitespace
RECURSIVE SplitFrom(_, _, _)
SplitFrom(s, cur, acc) ==
  IF s = << >> THEN (IF cur = << >> THEN acc ELSE Append(acc, cur))
  ELSE IF Head(s) \in Whitespace
       THEN SplitFrom(Tail(s), << >>, IF cur = << >> THEN acc ELSE Append(acc, cur))
       ELSE SplitFrom(Tail(s), Append(cur, Head(s)), acc)

Split(s) == SplitFrom(s, << >>, << >>)

\* str.find('='): 0-based position of the first '=', or -1
Find_last(kv) ==
  IF \E p \in 1..Len(kv) : kv[p] = "="
  THEN (CHOOSE p \in 1..Len(kv) : kv[p] = "=" /\ \A q \in (p + 1)..Len(kv) : kv[q] # "=") - 1
  ELSE -1
Find(kv) ==
  IF \E p \in 1..Len(kv) : kv[p] = "="
  THEN (CHOOSE p \in 1..Len(kv) : kv[p] = "=" /\ \A q \in 1..(p - 1) : kv[q] # "=") - 1
  ELSE -1

\* needle in haystack, for Python strings: a substring test
IsSubstring(needle, hay) ==
  \E p \in 0..(Len(hay) - Len(needle)) :
     SubSeq(hay, p + 1, p + Len(needle)) = needle

\* ------------------------------------------------------------ results ----
EmptyDict == [x \in {} |-> << >>]
DictSet(d, k, v) == [x \in (DOMAIN d) \cup {k} |-> IF x = k THEN v ELSE d[x]]

NoResult == [kind |-> "none", record |-> EmptyDict, jobid |-> << >>,
             tries |-> 0, elapsed |-> 0, token |-> << >>, raw |-> << >>]
Returned(d) == [NoResult EXCEPT !.kind = "record", !.record = d]
ValueError(jid, n, t) ==
  [NoResult EXCEPT !.kind = "ValueError", !.jobid = jid, !.tries = n, !.elapsed = t]
EnvironmentError(jid, rawtext, kv) ==
  [NoResult EXCEPT !.kind = "EnvironmentError", !.jobid = jid, !.raw = rawtext, !.token = kv]
UnboundLocalError == [NoResult EXCEPT !.kind = "UnboundLocalError"]
OSError == [NoResult EXCEPT !.kind = "OSError"]

\* ------------------------------------------------------------- parser ----
\* acct_dict[k] += (" " + kv)
Continue_unspaced(v, kv) == v \o kv
Continue(v, kv) == v \o <<" ">> \o kv

\* the loop of _qacct_raw over qacct_stdout_str.strip().split()
RECURSIVE ParseLoop(_, _, _, _, _, _, _)
ParseLoop(tokens, n, acct_dict, k_set, k, jid, rawtext) ==
  IF n > Len(tokens) THEN Returned(acct_dict)
  ELSE LET kv == tokens[n]
           eq_pos == Find(kv)
       IN  IF eq_pos = -1
           THEN IF k_set
                THEN ParseLoop(tokens, n + 1,
                               DictSet(acct_dict, k, Continue(acct_dict[k], kv)),
                               k_set, k, jid, rawtext)
                ELSE EnvironmentError(jid, rawtext, kv)
           ELSE LET nk == SubSeq(kv, 1, eq_pos)
                    nv == SubSeq(kv, eq_pos + 2, Len(kv))
                IN  ParseLoop(tokens, n + 1, DictSet(acct_dict, nk, nv),
                              TRUE, nk, jid, rawtext)

Parse_stripped(rawtext, jid) ==
  ParseLoop(Split(Strip(rawtext)), 1, EmptyDict, FALSE, << >>, jid, Strip(rawtext))
Parse(rawtext, jid) ==
  ParseLoop(Split(Strip(rawtext)), 1, EmptyDict, FALSE, << >>, jid, rawtext)

\* -------------------------------------------------------------- state ----
VARIABLES
  \* _qacct_raw(task, timeout, quantum)
  qpc,               \* position: idle, call, for, query, sleep, else, parse, returned, raised
  task_jobID,        \* task.drm_jobID
  timeout, quantum,  \* the two parameters
  elapsed,           \* time.time() - start: the time since the call was entered
  num_retries,
  i, i_set,          \* the loop variable, and whether it has been assigned
  qacct_returncode, qacct_stdout_str, qacct_stderr_str,
  last,              \* what the most recent scontrol invocation did
  attempts,          \* number of scontrol invocations made by this call
  sleeps,            \* number of sleep_through_signals calls made by this call
  qresult,           \* the value returned or the exception raised
  \* filter_is_done(tasks)
  fpc,               \* position: none, call, loop, retrieving, done, raised
  tasks,             \* the argument: a sequence of job ids
  listings,          \* number of squeue invocations made by this call
  qjobs, qjobs_set,  \* the local qjobs, and whether it has been assigned
  idx,               \* position of the for loop over tasks
  retrieved,         \* positions for which _get_task_return_data was called
  skipped,           \* positions the loop passed without yielding
  yielded,           \* the (position, data) pairs yielded so far
  warned,            \* positions for which a warning was logged
  ferror,            \* the exception that left the generator
  \* kill_tasks(tasks)
  kpc,               \* position: none, loop, done, raised
  ktasks,            \* the argument: a sequence of job ids
  kpos,              \* number of tasks that grouper has consumed
  invocations,       \* the job ids of each scancel invocation, in order
  klast,             \* what the most recent scancel invocation did
  kerror,            \* the exception that left kill_tasks
  \* submit_job(task)
  spc,               \* position: none, call, returned, raised
  stale,             \* which of the two output paths exist
  sub,               \* what the sbatch invocation did
  sresult,           \* the job id returned, or the exception raised
  \* _qstat_all()
  tpc,               \* position: none, call, returned
  squeue,            \* what the squeue invocation did
  bjobs              \* the table returned

qvars == << qpc, task_jobID, timeout, quantum, elapsed, num_retries, i, i_set,
            qacct_returncode, qacct_stdout_str, qacct_stderr_str, last,
            attempts, sleeps, qresult >>
fvars == << fpc, tasks, listings, qjobs, qjobs_set, idx, retrieved, skipped,
            yielded, warned, ferror >>
kvars == << kpc, ktasks, kpos, invocations, klast, kerror >>
svars == << spc, stale, sub, sresult >>
tvars == << tpc, squeue, bjobs >>
ovars == << kvars, svars, tvars >>
vars == << qvars, fvars, ovars >>

NoSubmit == [kind |-> "none", jobid |-> << >>, raw |-> << >>]

\* the functions that are not being called
KillIdle ==
  /\ kpc = "none"
  /\ ktasks = << >>
  /\ kpos = 0
  /\ invocations = << >>
  /\ klast = "none"
  /\ kerror = "none"

SubmitIdle ==
  /\ spc = "none"
  /\ stale = {}
  /\ sub = [kind |-> "none", stdout |-> << >>]
  /\ sresult = NoSubmit

QstatIdle ==
  /\ tpc = "none"
  /\ squeue = [kind |-> "none", stdout |-> << >>]
  /\ bjobs = [x \in {} |-> << >>]

\* --------------------------------------- the fake scontrol invocation ----
NoOutcome == [kind |-> "none", stdout |-> << >>, stderr |-> << >>]

\* what one `scontrol show jobid -d -o <id>` can do: exit 0 ("ok"), exit
\* non-zero ("CalledProcessError"), or fail to start ("OSError")
QueryOutcomes ==
  { [kind |-> "ok", stdout |-> <<"A", "=", "1">>, stderr |-> << >>],
    [kind |-> "ok", stdout |-> <<"A", "=", "1", " ", "x", "\n">>, stderr |-> <<"w">>],
    [kind |-> "ok", stdout |-> <<"JobState", "=", "FAILED">>, stderr |-> << >>],
    [kind |-> "ok", stdout |-> <<"JobState", "=", "COMPLETED">>, stderr |-> << >>],
    [kind |-> "ok", stdout |-> <<"x", " ", "A", "=", "1">>, stderr |-> << >>],
    [kind |-> "ok", stdout |-> <<"A", "=", "1">>, stderr |-> Sentinel],
    [kind |-> "ok", stdout |-> << >>, stderr |-> << >>],
    [kind |-> "ok", stdout |-> <<" ", "\n">>, stderr |-> Sentinel \o <<"\n">>],
    [kind |-> "CalledProcessError", stdout |-> << >>, stderr |-> <<"e">>],
    [kind |-> "CalledProcessError", stdout |-> <<"A", "=", "1">>, stderr |-> <<"e", " ">> \o Sentinel],
    [kind |-> "CalledProcessError", stdout |-> << >>, stderr |-> Sentinel \o <<"\n">>],
    [kind |-> "OSError", stdout |-> << >>, stderr |-> << >>] }

\* ---------------------------------------------------------- _qacct_raw ----
\* entry: start = time.time(); num_retries = timeout / quantum
qacct_call ==
  /\ qpc = "call"
  /\ elapsed' = 0
  /\ num_retries' = timeout \div quantum
  /\ qpc' = "for"
  /\ UNCHANGED << task_jobID, timeout, quantum, i, i_set, qacct_returncode,
                  qacct_stdout_str, qacct_stderr_str, last, attempts, sleeps, qresult >>
  /\ UNCHANGED fvars
  /\ UNCHANGED ovars

\* for i in xrange(num_retries): next value, or the loop is exhausted
NextIndex == IF i_set THEN i + 1 ELSE 0

qacct_for ==
  /\ qpc = "for"
  /\ IF NextIndex < num_retries
     THEN /\ i' = NextIndex
          /\ i_set' = TRUE
          /\ qacct_returncode' = 0
          /\ qpc' = "query"
     ELSE /\ qpc' = "else"
          /\ UNCHANGED << i, i_set, qacct_returncode >>
  /\ UNCHANGED << task_jobID, timeout, quantum, elapsed, num_retries,
                  qacct_stdout_str, qacct_stderr_str, last, attempts, sleeps, qresult >>
  /\ UNCHANGED fvars
  /\ UNCHANGED ovars

\* position after an attempt that neither broke out of the loop nor returned
AfterFailure_always == "sleep"
AfterFailure == IF i + 1 < num_retries THEN "sleep" ELSE "for"

\* the break: check_output returned and len(qacct_stdout_str.strip()) is not 0
BreaksOut_notLast(o) ==
  o.kind = "ok" /\ Len(Strip(o.stdout)) > 0 /\ i + 1 < num_retries
BreaksOut(o) == o.kind = "ok" /\ Len(Strip(o.stdout)) > 0

\* the sentinel test on qacct_stderr_fd.read().strip()
SentinelMatch_unstripped(o) == Sentinel = o.stderr
SentinelMatch(o) == Sentinel = Strip(o.stderr)

\* one loop body: the scontrol invocation and what follows it up to the sleep
qacct_query(o) ==
  /\ qpc = "query"
  /\ attempts' = attempts + 1
  /\ last' = o
  /\ IF o.kind = "OSError"
     THEN \* not caught: leaves _qacct_raw
          /\ qpc' = "raised"
          /\ qresult' = OSError
          /\ UNCHANGED << qacct_returncode, qacct_stdout_str, qacct_stderr_str >>
     ELSE IF BreaksOut(o)
     THEN /\ qpc' = "parse"
          /\ qacct_stdout_str' = o.stdout
          /\ UNCHANGED << qacct_returncode, qacct_stderr_str, qresult >>
     ELSE /\ qacct_stdout_str' = IF o.kind = "ok" THEN o.stdout ELSE Strip(o.stdout)
          /\ qacct_returncode' = IF o.kind = "ok" THEN 0 ELSE 1
          /\ qacct_stderr_str' = Strip(o.stderr)
          /\ IF SentinelMatch(o)
             THEN /\ qpc' = "returned"
                  /\ qresult' = Returned(DictSet(EmptyDict, JobIdKey, task_jobID))
             ELSE /\ qpc' = AfterFailure
                  /\ UNCHANGED qresult
  /\ UNCHANGED << task_jobID, timeout, quantum, elapsed, num_retries, i, i_set, sleeps >>
  /\ UNCHANGED fvars
  /\ UNCHANGED ovars

\* sleep_through_signals(timeout=quantum)
qacct_sleep ==
  /\ qpc = "sleep"
  /\ sleeps' = sleeps + 1
  /\ elapsed' = elapsed + quantum
  /\ qpc' = "for"
  /\ UNCHANGED << task_jobID, timeout, quantum, num_retries, i, i_set,
                  qacct_returncode, qacct_stdout_str, qacct_stderr_str, last,
                  attempts, qresult >>
  /\ UNCHANGED fvars
  /\ UNCHANGED ovars

\* the else clause of the for loop: building the message reads i
qacct_else ==
  /\ qpc = "else"
  /\ qpc' = "raised"
  /\ qresult' = IF i_set THEN ValueError(task_jobID, i, elapsed)
                         ELSE UnboundLocalError
  /\ UNCHANGED << task_jobID, timeout, quantum, elapsed, num_retries, i, i_set,
                  qacct_returncode, qacct_stdout_str, qacct_stderr_str, last,
                  attempts, sleeps >>
  /\ UNCHANGED fvars
  /\ UNCHANGED ovars

\* after the break: parse qacct_stdout_str
qacct_parse ==
  /\ qpc = "parse"
  /\ LET r == Parse(qacct_stdout_str, task_jobID)
     IN  /\ qresult' = r
         /\ qpc' = IF r.kind = "record" THEN "returned" ELSE "raised"
  /\ UNCHANGED << task_jobID, timeout, quantum, elapsed, num_retries, i, i_set,
                  qacct_returncode, qacct_stdout_str, qacct_stderr_str, last,
                  attempts, sleeps >>
  /\ UNCHANGED fvars
  /\ UNCHANGED ovars

qacct_raw ==
  \/ qacct_call
  \/ qacct_for
  \/ \E o \in QueryOutcomes : qacct_query(o)
  \/ qacct_sleep
  \/ qacct_else
  \/ qacct_parse

\* ------------------------------------- _qacct_raw called on its own ----
FilterIdle ==
  /\ fpc = "none"
  /\ tasks = << >>
  /\ listings = 0
  /\ qjobs = EmptyDict
  /\ qjobs_set = FALSE
  /\ idx = 0
  /\ retrieved = {}
  /\ skipped = {}
  /\ yielded = << >>
  /\ warned = {}
  /\ ferror = NoResult

QacctEntry(jid, t, q) ==
  /\ qpc = "call"
  /\ task_jobID = jid
  /\ timeout = t
  /\ quantum = q
  /\ elapsed = 0
  /\ num_retries = 0
  /\ i = 0
  /\ i_set = FALSE
  /\ qacct_returncode = 0
  /\ qacct_stdout_str = << >>
  /\ qacct_stderr_str = << >>
  /\ last = NoOutcome
  /\ attempts = 0
  /\ sleeps = 0
  /\ qresult = NoResult

InitQacct ==
  /\ \E jid \in JobIds, t \in Timeouts, q \in Quanta : QacctEntry(jid, t, q)
  /\ FilterIdle
  /\ KillIdle /\ SubmitIdle /\ QstatIdle

NextQacct == qacct_raw

SpecQacct == InitQacct /\ [][NextQacct]_vars

\* ---------------------------------------------------------- _qstat_all ----
StatusCodes == { <<"P","D">>, <<"C","D">>, <<"C","F">>, <<"R","Q">>, <<"C","G">> }
Absent == << >>
JobIdOrder == << <<"7">>, <<"8">> >>
Headers == << <<"JOBID">>, <<"ST">> >>

\* the lines of a squeue listing as sequences of fields: the header line,
\* then one line per job that f lists
RECURSIVE ListingRows(_, _)
ListingRows(f, n) ==
  IF n = 0 THEN << Headers >>
  ELSE LET jid == JobIdOrder[n]
           rest == ListingRows(f, n - 1)
       IN  IF f[jid] = Absent THEN rest ELSE Append(rest, << jid, f[jid] >>)

\* a line of the listing as squeue prints it: every field after a blank
RECURSIVE JoinFields(_, _)
JoinFields(fields, n) ==
  IF n = 0 THEN << >> ELSE JoinFields(fields, n - 1) \o <<" ">> \o fields[n]

\* the text of a listing: every line ended by a newline
RECURSIVE Render(_, _)
Render(lines, n) ==
  IF n = 0 THEN << >>
  ELSE Render(lines, n - 1) \o JoinFields(lines[n], Len(lines[n])) \o <<"\n">>

\* what one `squeue` can do
SqueueOutcomes ==
  { [kind |-> "ok",
     stdout |-> Render(ListingRows(f, Len(JobIdOrder)),
                       Len(ListingRows(f, Len(JobIdOrder))))] :
        f \in [JobIds -> StatusCodes \cup {Absent}] }
  \cup { [kind |-> "CalledProcessError", stdout |-> << >>],
         [kind |-> "OSError", stdout |-> << >>] }

\* str.split('\n'): the pieces between newlines, empty ones kept
RECURSIVE SplitLinesFrom(_, _, _)
SplitLinesFrom(s, cur, acc) ==
  IF s = << >> THEN Append(acc, cur)
  ELSE IF Head(s) = "\n"
       THEN SplitLinesFrom(Tail(s), << >>, Append(acc, cur))
       ELSE SplitLinesFrom(Tail(s), Append(cur, Head(s)), acc)

SplitLines(s) == SplitLinesFrom(s, << >>, << >>)

\* re.split("\s+", l.strip()): the maximal runs of non-whitespace, and one
\* empty field when the line is blank
ReSplit(l) == IF Strip(l) = << >> THEN << << >> >> ELSE Split(Strip(l))

\* the lines of check_output(['squeue']).strip().split('\n'), each as the
\* fields that re.split gives for it
FieldLines(out) ==
  LET lines == SplitLines(Strip(out))
  IN  [n \in 1..Len(lines) |-> ReSplit(lines[n])]

\* dict(zip(keys, items))
RECURSIVE DictZip(_, _, _)
DictZip(keys, items, n) ==
  IF n = 0 THEN EmptyDict
  ELSE DictSet(DictZip(keys, items, n - 1), keys[n], items[n])

Min(a, b) == IF a < b THEN a ELSE b

\* for l in lines[1:]: bjobs[items[0]] = dict(zip(keys, items))
RECURSIVE Rows(_, _)
Rows(lines, n) ==
  IF n <= 1 THEN EmptyDict
  ELSE LET items == lines[n]
       IN  DictSet(Rows(lines, n - 1), items[1],
                   DictZip(lines[1], items, Min(Len(lines[1]), Len(items))))

\* _qstat_all(): {} when squeue fails or cannot be started
qstat_all_firstWins(o) ==
  IF o.kind \in {"CalledProcessError", "OSError"} THEN EmptyDict
  ELSE LET L == FieldLines(o.stdout)
           R == [n \in 1..Len(L) |-> IF n = 1 THEN L[1] ELSE L[Len(L) + 2 - n]]
       IN  Rows(R, Len(R))
qstat_all(o) ==
  IF o.kind \in {"CalledProcessError", "OSError"} THEN EmptyDict
  ELSE Rows(FieldLines(o.stdout), Len(FieldLines(o.stdout)))

\* ------------------------------------------------------ filter_is_done ----
ST == <<"ST">>

\* any(finished_state in qjobs[jid]['ST'] for finished_state in [...])
HasFinishedState(st) == \E finished_state \in FinishedStates : IsSubstring(finished_state, st)

\* the condition of the if statement in the loop
IsDone(jid) == jid \notin DOMAIN qjobs \/ HasFinishedState(qjobs[jid][ST])

\* if len(tasks):
NeedsListing_always == TRUE
NeedsListing == Len(tasks) > 0

\* the generator is started: if len(tasks): qjobs = _qstat_all()
filter_call ==
  /\ fpc = "call"
  /\ IF NeedsListing
     THEN \E o \in SqueueOutcomes :
            /\ listings' = listings + 1
            /\ qjobs' = qstat_all(o)
            /\ qjobs_set' = TRUE
     ELSE UNCHANGED << listings, qjobs, qjobs_set >>
  /\ fpc' = "loop"
  /\ idx' = 1
  /\ UNCHANGED << tasks, retrieved, skipped, yielded, warned, ferror >>
  /\ UNCHANGED qvars
  /\ UNCHANGED ovars

\* one turn of `for task in tasks`: a done task enters _get_task_return_data,
\* which calls _qacct_raw(task) with the default timeout and quantum
filter_step ==
  /\ fpc = "loop"
  /\ IF idx > Len(tasks)
     THEN /\ fpc' = "done"
          /\ UNCHANGED << idx, retrieved, skipped >>
          /\ UNCHANGED qvars
     ELSE IF IsDone(tasks[idx])
     THEN /\ fpc' = "retrieving"
          /\ retrieved' = retrieved \cup {idx}
          /\ qpc' = "call"
          /\ task_jobID' = tasks[idx]
          /\ timeout' = DefaultTimeout
          /\ quantum' = DefaultQuantum
          /\ elapsed' = 0
          /\ num_retries' = 0
          /\ i' = 0
          /\ i_set' = FALSE
          /\ qacct_returncode' = 0
          /\ qacct_stdout_str' = << >>
          /\ qacct_stderr_str' = << >>
          /\ last' = NoOutcome
          /\ attempts' = 0
          /\ sleeps' = 0
          /\ qresult' = NoResult
          /\ UNCHANGED << idx, skipped >>
     ELSE /\ skipped' = skipped \cup {idx}
          /\ idx' = idx + 1
          /\ UNCHANGED << fpc, retrieved >>
          /\ UNCHANGED qvars
  /\ UNCHANGED << tasks, listings, qjobs, qjobs_set, yielded, warned, ferror >>
  /\ UNCHANGED ovars

\* d.get("JobState", 'COMPLETED')
JobStateOf_unknown(d) == IF JobStateKey \in DOMAIN d THEN d[JobStateKey] ELSE <<"UNKNOWN">>
JobStateOf(d) == IF JobStateKey \in DOMAIN d THEN d[JobStateKey] ELSE Completed

\* _qacct_raw returned d: _get_task_return_data warns on a job state other
\* than COMPLETED and returns d, and the generator yields (task, d)
filter_yield ==
  /\ fpc = "retrieving"
  /\ qpc = "returned"
  /\ warned' = IF JobStateOf(qresult.record) # Completed THEN warned \cup {idx} ELSE warned
  /\ yielded' = Append(yielded, << idx, qresult.record >>)
  /\ idx' = idx + 1
  /\ fpc' = "loop"
  /\ qpc' = "idle"
  /\ UNCHANGED << task_jobID, timeout, quantum, elapsed, num_retries, i, i_set,
                  qacct_returncode, qacct_stdout_str, qacct_stderr_str, last,
                  attempts, sleeps, qresult >>
  /\ UNCHANGED << tasks, listings, qjobs, qjobs_set, retrieved, skipped, ferror >>
  /\ UNCHANGED ovars

\* _qacct_raw raised: nothing catches it, the exception leaves the generator
filter_raise ==
  /\ fpc = "retrieving"
  /\ qpc = "raised"
  /\ ferror' = qresult
  /\ fpc' = "raised"
  /\ qpc' = "idle"
  /\ UNCHANGED << task_jobID, timeout, quantum, elapsed, num_retries, i, i_set,
                  qacct_returncode, qacct_stdout_str, qacct_stderr_str, last,
                  attempts, sleeps, qresult >>
  /\ UNCHANGED << tasks, listings, qjobs, qjobs_set, idx, retrieved, skipped,
                  yielded, warned >>
  /\ UNCHANGED ovars

\* the sequences of at most n job ids; the tasks of a call have distinct ids
RECURSIVE TaskSeqs(_)
TaskSeqs(n) ==
  IF n = 0 THEN { << >> }
  ELSE LET S == TaskSeqs(n - 1)
       IN  S \cup { Append(t, j) : t \in {u \in S : Len(u) = n - 1},
                                   j \in JobIds }

Distinct(t) == \A a, b \in 1..Len(t) : a # b => t[a] # t[b]

InitFilter ==
  /\ fpc = "call"
  /\ tasks \in {t \in TaskSeqs(Cardinality(JobIds)) : Distinct(t)}
  /\ listings = 0
  /\ qjobs = EmptyDict
  /\ qjobs_set = FALSE
  /\ idx = 0
  /\ retrieved = {}
  /\ skipped = {}
  /\ yielded = << >>
  /\ warned = {}
  /\ ferror = NoResult
  /\ qpc = "idle"
  /\ task_jobID = << >>
  /\ timeout = DefaultTimeout
  /\ quantum = DefaultQuantum
  /\ elapsed = 0
  /\ num_retries = 0
  /\ i = 0
  /\ i_set = FALSE
  /\ qacct_returncode = 0
  /\ qacct_stdout_str = << >>
  /\ qacct_stderr_str = << >>
  /\ last = NoOutcome
  /\ attempts = 0
  /\ sleeps = 0
  /\ qresult = NoResult
  /\ KillIdle /\ SubmitIdle /\ QstatIdle

NextFilter ==
  \/ filter_call
  \/ filter_step
  \/ filter_yield
  \/ filter_raise
  \/ qacct_raw

SpecFilter == InitFilter /\ [][NextFilter]_vars

\* ------------------------------------------- the parser on its own ----
\* _qacct_raw right after the break of its first attempt, for every stdout
\* that is not empty after strip()
ExampleTexts ==
  { <<"A", "=", "1", " ", "extra", " ", "B", "=", "2">>,
    <<"extra", " ", "B", "=", "2">>,
    <<"A", "=", "1", " ", "x", " ", "B", "=", "2", "\n", "A", "=", "3", "\t", " ", "y", " ", "z">> }

ParseTexts == { t \in TextsUpTo(MaxLen) \cup ExampleTexts : Strip(t) # << >> }

InitParse ==
  /\ FilterIdle
  /\ KillIdle /\ SubmitIdle /\ QstatIdle
  /\ qpc = "parse"
  /\ task_jobID \in JobIds
  /\ timeout = DefaultTimeout
  /\ quantum = DefaultQuantum
  /\ elapsed = 0
  /\ num_retries = DefaultTimeout \div DefaultQuantum
  /\ i = 0
  /\ i_set = TRUE
  /\ qacct_returncode = 0
  /\ qacct_stdout_str \in ParseTexts
  /\ qacct_stderr_str = << >>
  /\ last = [kind |-> "ok", stdout |-> qacct_stdout_str, stderr |-> << >>]
  /\ attempts = 1
  /\ sleeps = 0
  /\ qresult = NoResult

NextParse == qacct_parse

SpecParse == InitParse /\ [][NextParse]_vars

\* ============================================ accounting retrieval ====
QacctFinished == qpc \in {"returned", "raised"}

\* the invocation failed or printed nothing
Failed(o) ==
  \/ o.kind = "CalledProcessError"
  \/ o.kind = "ok" /\ Strip(o.stdout) = << >>

\* the invocation succeeded with non-empty stdout
Succeeded(o) == o.kind = "ok" /\ Strip(o.stdout) # << >>

\* every invocation of the call failed without the sentinel on stderr (an
\* earlier attempt that did anything else would have ended the call)
AllFailed ==
  \/ last.kind = "none"
  \/ Failed(last) /\ Strip(last.stderr) # Sentinel

MinimalRecord == DictSet(EmptyDict, JobIdKey, task_jobID)

\* C1 as stated: when attempt N is the first to succeed with non-empty
\* stdout, the call returns a record, the parse of that stdout, after exactly
\* N invocations, and raises no error.
C1_AsStated ==
  (QacctFinished /\ Succeeded(last)) =>
     /\ qpc = "returned"
     /\ qresult.kind = "record"
     /\ qresult = Parse(last.stdout, task_jobID)
     /\ attempts = i + 1
     /\ attempts \in 1..num_retries

\* C1 (amended): when attempt N (1 <= N <= num_retries) is the first to
\* succeed with non-empty stdout, the outcome of the call is the parse of
\* that stdout (the record, or the parse error when its first token has no
\* '='), exactly N invocations were made, and the retry-exhausted error is
\* not raised, also when N = num_retries.
C1_RetrySuccess ==
  (QacctFinished /\ Succeeded(last)) =>
     /\ qresult = Parse(last.stdout, task_jobID)
     /\ qresult.kind \in {"record", "EnvironmentError"}
     /\ (qpc = "returned") = (qresult.kind = "record")
     /\ attempts = i + 1
     /\ attempts \in 1..num_retries

C1_Witness ==
  /\ qpc = "returned"
  /\ Succeeded(last)
  /\ attempts = num_retries
  /\ attempts >= 2
  /\ qresult.record = DictSet(EmptyDict, <<"A">>, <<"1", " ", "x">>)

\* C2: when every attempt fails or prints nothing and stderr never is the
\* sentinel, the call ends after exactly floor(timeout/quantum) invocations
\* by raising the retry-exhausted error (ValueError), and returns no record.
C2_RetryExhaustion ==
  (QacctFinished /\ AllFailed) =>
     /\ qpc = "raised"
     /\ qresult.kind = "ValueError"
     /\ attempts = timeout \div quantum

\* C3: an attempt k that fails or prints nothing and whose stripped stderr
\* is the sentinel ends the call at once: it returns {JobId: <job id>}, k
\* invocations were made, each of the k-1 earlier ones was followed by one
\* sleep and attempt k by none, and no error is raised.
C3_SentinelShortCircuit ==
  (QacctFinished /\ Failed(last) /\ Strip(last.stderr) = Sentinel) =>
     /\ qpc = "returned"
     /\ qresult = Returned(MinimalRecord)
     /\ attempts = i + 1
     /\ attempts \in 1..num_retries
     /\ sleeps = attempts - 1
     /\ elapsed = (attempts - 1) * quantum

C3_Witness ==
  /\ qpc = "returned"
  /\ Failed(last)
  /\ last.stderr = Sentinel \o <<"\n">>
  /\ attempts = 1
  /\ num_retries > 1
  /\ sleeps = 0
  /\ qresult.record = MinimalRecord

\* C8: for all positive timeout and quantum a call makes at least one and at
\* most max(1, floor(timeout/quantum)) invocations; when timeout < quantum
\* it makes exactly one, and ends in a record or the retry-exhausted error.
MaxAttempts == IF timeout \div quantum < 1 THEN 1 ELSE timeout \div quantum

C8_AttemptCount ==
  QacctFinished =>
     /\ attempts \in 1..MaxAttempts
     /\ (AllFailed => attempts = MaxAttempts)
     /\ (timeout < quantum =>
           /\ attempts = 1
           /\ qresult.kind \in {"record", "ValueError"})

\* C9: the retry-exhausted error carries the job id, the number of
\* invocations actually made, and the time elapsed since entry.
C9_ExhaustedPayload ==
  (qpc = "raised" /\ qresult.kind = "ValueError") =>
     /\ qresult.jobid = task_jobID
     /\ qresult.tries = attempts
     /\ qresult.elapsed = elapsed

\* ================================================= completion filter ====
Listed(p) == tasks[p] \in DOMAIN qjobs
Code(p) == qjobs[tasks[p]][ST]
PairsOf(p) == { n \in 1..Len(yielded) : yielded[n][1] = p }
CycleOver == fpc \in {"done", "raised"}

\* C4: a task that the listing shows with a status code outside the
\* terminal set is not done: no accounting retrieval is started for it and
\* no pair is yielded for it.
C4_NonTerminalSkipped ==
  \A p \in 1..Len(tasks) :
     (qjobs_set /\ Listed(p) /\ Code(p) \notin FinishedStates) =>
        /\ p \notin retrieved
        /\ PairsOf(p) = {}

\* C5: when the cycle is over, every task that the listing does not show, or
\* shows with a code of the terminal set, has had accounting retrieval
\* invoked and exactly one pair yielded.
C5_DoneYielded ==
  CycleOver =>
     \A p \in 1..Len(tasks) :
        (~Listed(p) \/ Code(p) \in FinishedStates) =>
           /\ p \in retrieved
           /\ Cardinality(PairsOf(p)) = 1

\* C6: when squeue fails or cannot be started, _qstat_all returns the empty
\* table without an error, and by the end of that cycle every task of the
\* call has been classified done and has had accounting retrieval invoked.
C6_FailOpen ==
  \A o \in {[kind |-> "CalledProcessError", stdout |-> << >>],
            [kind |-> "OSError", stdout |-> << >>]} :
     /\ qstat_all(o) = EmptyDict
     /\ (CycleOver /\ Len(tasks) > 0 /\ qjobs = qstat_all(o)) =>
           \A p \in 1..Len(tasks) : p \in retrieved /\ p \notin skipped

\* C7: while the accounting retrieval of one task waits in its retry loop,
\* the filter can still classify the tasks after it.
C7_NoStall ==
  (fpc = "retrieving" /\ qpc = "sleep" /\ idx < Len(tasks)) =>
     ENABLED (filter_step /\ idx' # idx)

\* ============================================================ parser ====
Format(k, v) == k \o <<"=">> \o v
HasEq(s) == \E p \in 1..Len(s) : s[p] = "="
HasWhitespace(s) == \E p \in 1..Len(s) : s[p] \in Whitespace
SingleSpaced(s) ==
  \A p \in 1..Len(s) :
     s[p] \in Whitespace => (s[p] = " " /\ p > 1 /\ s[p - 1] \notin Whitespace)
ParseOver == qpc \in {"returned", "raised"}

\* C10 as stated: for any key, and any value without '=' and without leading
\* or trailing whitespace, the parse of key=value is {key: value}.
C10_AsStated ==
  ParseOver =>
     \A p \in 1..Len(qacct_stdout_str) :
        LET k == SubSeq(qacct_stdout_str, 1, p - 1)
            v == SubSeq(qacct_stdout_str, p + 1, Len(qacct_stdout_str))
        IN  (qacct_stdout_str = Format(k, v) /\ ~HasEq(v) /\ v = Strip(v)) =>
               qresult = Returned(DictSet(EmptyDict, k, v))

\* C10 (amended): for any key without '=' and without whitespace, and any
\* value without '=', without leading or trailing whitespace and whose
\* internal whitespace is single spaces only, the parse of key=value is
\* {key: value}.
C10_RoundTrip ==
  ParseOver =>
     \A p \in 1..Len(qacct_stdout_str) :
        LET k == SubSeq(qacct_stdout_str, 1, p - 1)
            v == SubSeq(qacct_stdout_str, p + 1, Len(qacct_stdout_str))
        IN  (/\ qacct_stdout_str = Format(k, v)
             /\ ~HasEq(k) /\ ~HasWhitespace(k)
             /\ ~HasEq(v) /\ v = Strip(v) /\ SingleSpaced(v)) =>
               qresult = Returned(DictSet(EmptyDict, k, v))

C10_Witness ==
  /\ qpc = "returned"
  /\ qacct_stdout_str = Format(<<"a">>, <<"a", " ", "a">>)
  /\ qresult.record = DictSet(EmptyDict, <<"a">>, <<"a", " ", "a">>)

\* the tokens of the text that was parsed
Tokens == Split(Strip(qacct_stdout_str))
EqAt(kv) == CHOOSE p \in 1..Len(kv) : kv[p] = "=" /\ \A q \in 1..(p - 1) : kv[q] # "="
KeyOf(kv) == SubSeq(kv, 1, EqAt(kv) - 1)
ValOf(kv) == SubSeq(kv, EqAt(kv) + 1, Len(kv))
Starts == { n \in 1..Len(Tokens) : HasEq(Tokens[n]) }
\* the last token that starts key K, and the last token before the next start
LastStart(K) ==
  CHOOSE m \in Starts : KeyOf(Tokens[m]) = K /\
                        \A n \in Starts : KeyOf(Tokens[n]) = K => n <= m
RunEnd(m) ==
  CHOOSE e \in m..Len(Tokens) :
     /\ \A n \in (m + 1)..e : n \notin Starts
     /\ (e < Len(Tokens) => e + 1 \in Starts)
\* the value part of token m followed by the tokens m+1..e, one space between
RECURSIVE Joined(_, _)
Joined(m, e) ==
  IF e = m THEN ValOf(Tokens[m]) ELSE Joined(m, e - 1) \o <<" ">> \o Tokens[e]

\* C11: when the first token contains '=', the parse is a record whose keys
\* are the parts before the first '=' of the tokens that contain '=', each
\* once, and the value of a key is the part after the first '=' of the last
\* token that starts it, followed by the tokens without '=' up to the next
\* token with '=', each appended after one space.
C11_ContinuationMerge ==
  (ParseOver /\ Tokens # << >> /\ HasEq(Tokens[1])) =>
     /\ qpc = "returned"
     /\ qresult.kind = "record"
     /\ DOMAIN qresult.record = { KeyOf(Tokens[n]) : n \in Starts }
     /\ \A K \in DOMAIN qresult.record :
           qresult.record[K] = Joined(LastStart(K), RunEnd(LastStart(K)))

C11_Witness ==
  /\ qpc = "returned"
  /\ qacct_stdout_str = <<"A", "=", "1", " ", "extra", " ", "B", "=", "2">>
  /\ qresult.record = DictSet(DictSet(EmptyDict, <<"A">>, <<"1", " ", "extra">>),
                              <<"B">>, <<"2">>)

\* C12: when the first token contains no '=', the parse raises the parse
\* error, which carries that token and the full raw text, and no record,
\* not even a partial one, is returned.
C12_ContinuationWithoutKey ==
  (ParseOver /\ Tokens # << >> /\ ~HasEq(Tokens[1])) =>
     /\ qpc = "raised"
     /\ qresult.kind = "EnvironmentError"
     /\ qresult.token = Tokens[1]
     /\ qresult.raw = qacct_stdout_str
     /\ qresult.record = EmptyDict

C12_Witness ==
  /\ qpc = "raised"
  /\ qacct_stdout_str = <<"extra", " ", "B", "=", "2">>
  /\ qresult.token = <<"extra">>

\* ====================================== retry schedule and failures ====
\* C18: a sleep is taken only after an attempt that failed or printed
\* nothing without the sentinel and was not the last one, and every such
\* attempt is followed by exactly one sleep of one quantum before the next
\* invocation; the last attempt, a successful one and a sentinel match are
\* followed by none, so a finished call of k >= 1 attempts has slept at most
\* k-1 times, and the total sleep never exceeds the timeout.
C18_SleepSchedule ==
  /\ (qpc = "sleep" =>
        /\ Failed(last) /\ Strip(last.stderr) # Sentinel
        /\ attempts < num_retries
        /\ sleeps = attempts - 1)
  /\ (qpc = "query" => sleeps = attempts)
  /\ ((qpc = "for" /\ sleeps < attempts) =>
        (attempts = num_retries /\ sleeps = attempts - 1))
  /\ ((qpc \in {"parse", "else", "returned", "raised"} /\ attempts >= 1) =>
        sleeps = attempts - 1)
  /\ elapsed = sleeps * quantum
  /\ sleeps * quantum <= timeout

C18_Witness ==
  /\ qpc = "raised"
  /\ qresult.kind = "ValueError"
  /\ attempts = 3
  /\ sleeps = 2
  /\ quantum = 1

\* C19: an attempt that is not the last one, finds no sentinel, and exited
\* non-zero, printed nothing or could not be started, does not end the call
\* with an error: the call goes on to another attempt.
FailedOrNotStarted(o) == Failed(o) \/ o.kind = "OSError"

C19_TransientAbsorbed ==
  (/\ attempts >= 1
   /\ attempts < num_retries
   /\ FailedOrNotStarted(last)
   /\ Strip(last.stderr) # Sentinel) =>
     qpc \in {"sleep", "for", "query"}

\* ============================================= status classification ====
\* C16: every record that retrieval returns is yielded unchanged whatever
\* its JobState, and a warning is logged for a task if and only if its
\* record has a JobState field that is not COMPLETED.
C16_StatusNonFatal ==
  /\ \A n \in 1..Len(yielded) :
        LET d == yielded[n][2]
        IN  (yielded[n][1] \in warned) <=>
               (JobStateKey \in DOMAIN d /\ d[JobStateKey] # Completed)
  /\ warned \subseteq { yielded[n][1] : n \in 1..Len(yielded) }
  /\ (fpc = "retrieving" => qpc # "idle")
  /\ ((/\ fpc \in {"loop", "done"}
       /\ yielded # << >>
       /\ yielded[Len(yielded)][1] = idx - 1) =>
        /\ qresult.kind = "record"
        /\ yielded[Len(yielded)][2] = qresult.record
        /\ qresult.record = IF Succeeded(last)
                            THEN Parse(last.stdout, task_jobID).record
                            ELSE MinimalRecord)

C16_Witness ==
  /\ Len(yielded) = 2
  /\ yielded[1][2] = DictSet(EmptyDict, JobStateKey, <<"FAILED">>)
  /\ yielded[2][2] = DictSet(EmptyDict, JobIdKey, tasks[2])
  /\ warned = {1}

\* C20: a call with a non-empty task sequence runs squeue exactly once, a
\* call with no tasks never, and every task of the call is classified
\* against that one table, however long the retrievals in between take.
C20_OneSnapshot ==
  /\ (fpc = "call" => listings = 0)
  /\ (fpc # "call" => listings = IF Len(tasks) > 0 THEN 1 ELSE 0)
  /\ qjobs_set = (listings = 1)
  /\ \A p \in retrieved : IsDone(tasks[p])
  /\ \A p \in skipped : ~IsDone(tasks[p])
  /\ (fpc = "done" => retrieved \cup skipped = 1..Len(tasks))

C20_Witness ==
  /\ fpc = "done"
  /\ Len(tasks) = 2
  /\ listings = 1
  /\ retrieved = {1}
  /\ skipped = {2}
  /\ sleeps > 0

\* ========================================================= kill_tasks ====
\* _qacct_raw is not being called
QacctIdle ==
  /\ qpc = "idle"
  /\ task_jobID = << >>
  /\ timeout = DefaultTimeout
  /\ quantum = DefaultQuantum
  /\ elapsed = 0
  /\ num_retries = 0
  /\ i = 0
  /\ i_set = FALSE
  /\ qacct_returncode = 0
  /\ qacct_stdout_str = << >>
  /\ qacct_stderr_str = << >>
  /\ last = NoOutcome
  /\ attempts = 0
  /\ sleeps = 0
  /\ qresult = NoResult

MaxKill == 120
ChunkSize == 50
None == 0

\* what one `scancel -Q <ids>` can do: exit 0, exit non-zero, or fail to start
ScancelOutcomes == {"ok", "nonzero", "OSError"}

\* the next tuple of grouper(50, tasks): the next 50 tasks, padded with None
Group == [j \in 1..ChunkSize |->
            IF kpos + j <= Len(ktasks) THEN ktasks[kpos + j] ELSE None]

\* filter(lambda x: x is not None, group)
NotNone(x) == x # None
Filtered(group) == SelectSeq(group, NotNone)

\* one turn of `for group in grouper(50, tasks)`: sp.call of scancel, whose
\* return code is dropped; an OSError of sp.call leaves kill_tasks
kill_scancel(o) ==
  /\ kpc = "loop"
  /\ kpos < Len(ktasks)
  /\ invocations' = Append(invocations, Filtered(Group))
  /\ klast' = o
  /\ IF o = "OSError"
     THEN /\ kpc' = "raised"
          /\ kerror' = "OSError"
          /\ UNCHANGED kpos
     ELSE /\ kpos' = IF kpos + ChunkSize <= Len(ktasks) THEN kpos + ChunkSize
                                                        ELSE Len(ktasks)
          /\ UNCHANGED << kpc, kerror >>
  /\ UNCHANGED ktasks
  /\ UNCHANGED << qvars, fvars, svars, tvars >>

\* grouper is exhausted: kill_tasks returns None
kill_return ==
  /\ kpc = "loop"
  /\ kpos >= Len(ktasks)
  /\ kpc' = "done"
  /\ UNCHANGED << ktasks, kpos, invocations, klast, kerror >>
  /\ UNCHANGED << qvars, fvars, svars, tvars >>

\* the tasks of a call: n tasks with the job ids 1..n
InitKill ==
  /\ kpc = "loop"
  /\ \E n \in 0..MaxKill : ktasks = [j \in 1..n |-> j]
  /\ kpos = 0
  /\ invocations = << >>
  /\ klast = "none"
  /\ kerror = "none"
  /\ QacctIdle /\ FilterIdle /\ SubmitIdle /\ QstatIdle

NextKill ==
  \/ \E o \in ScancelOutcomes : kill_scancel(o)
  \/ kill_return

SpecKill == InitKill /\ [][NextKill]_vars

KillOver == kpc \in {"done", "raised"}
Ceil(n, d) == (n + d - 1) \div d

RECURSIVE Concat(_, _)
Concat(ss, n) == IF n = 0 THEN << >> ELSE Concat(ss, n - 1) \o ss[n]

\* C13: when kill_tasks is over, exactly ceil(n/50) scancel invocations were
\* issued for its n tasks, each with 1 to 50 job ids, all but the last with
\* exactly 50, and together they hold every job id once, in input order.
C13_Chunking ==
  KillOver =>
     /\ Len(invocations) = Ceil(Len(ktasks), ChunkSize)
     /\ \A c \in 1..Len(invocations) :
           /\ Len(invocations[c]) \in 1..ChunkSize
           /\ (c < Len(invocations) => Len(invocations[c]) = ChunkSize)
     /\ Concat(invocations, Len(invocations)) = ktasks

\* C14: a scancel that exits non-zero or cannot be started is not escalated
\* to the caller and not retried, and the invocations for the remaining
\* chunks are still issued.
C14_BestEffort ==
  /\ kpc # "raised"
  /\ kerror = "none"
  /\ (klast \in {"nonzero", "OSError"} /\ kpos < Len(ktasks) - ChunkSize =>
        ENABLED (\E o \in ScancelOutcomes : kill_scancel(o)))
  /\ \E n \in 0..Len(ktasks) :
        Concat(invocations, Len(invocations)) = SubSeq(ktasks, 1, n)

\* ========================================================= submit_job ====
MaxSubmitLen == 6
SubmitAlphabet == {"j", "o", "b", " ", "4", "8"}
Digits == {"0", "1", "2", "3", "4", "5", "6", "7", "8", "9"}

SubmitTexts ==
  UNION {[1..n -> SubmitAlphabet] : n \in 0..MaxSubmitLen}
    \cup {<< "S", "u", "b", "m", "i", "t", "t", "e", "d", " ",
             "b", "a", "t", "c", "h", " ", "j", "o", "b", " ",
             "4", "8", "2", "1" >>,
          << "j", "o", "b", " ", "b", " ", "j", "o", "b", " ", "4", " ", "8" >>}

\* what sp.check_output(sub, shell=True) can do: exit 0 with a stdout, exit
\* non-zero, or fail to start the shell
SubmitOutcomes ==
  {[kind |-> "ok", stdout |-> t] : t \in SubmitTexts}
    \cup {[kind |-> "CalledProcessError", stdout |-> << >>],
          [kind |-> "OSError", stdout |-> << >>]}

\* the positions where the pattern 'job (\d+)' matches in out
MatchAt(out, p) ==
  /\ p + 4 <= Len(out)
  /\ out[p] = "j" /\ out[p + 1] = "o" /\ out[p + 2] = "b" /\ out[p + 3] = " "
  /\ out[p + 4] \in Digits
MatchStarts(out) == {p \in 1..Len(out) : MatchAt(out, p)}

\* \d+ is greedy: the digits from position p up to the first non-digit
RECURSIVE DigitRun(_, _)
DigitRun(out, p) ==
  IF p <= Len(out) /\ out[p] \in Digits
  THEN << out[p] >> \o DigitRun(out, p + 1)
  ELSE << >>

\* re.search gives the leftmost match; group(1) of it
Group1(out) ==
  LET p == CHOOSE q \in MatchStarts(out) : \A r \in MatchStarts(out) : q <= r
  IN DigitRun(out, p + 4)

\* unicode(re.search('job (\d+)', out).group(1)); re.search is None when
\* nothing matches and None has no attribute group
ExtractId(out) ==
  IF MatchStarts(out) = {}
  THEN [kind |-> "AttributeError", jobid |-> << >>, raw |-> << >>]
  ELSE [kind |-> "returned", jobid |-> Group1(out), raw |-> << >>]

\* submit_job: old output files are removed, sbatch is run through the shell
\* and the job id is read from its stdout
submit_job ==
  /\ spc = "call"
  /\ \E o \in SubmitOutcomes :
        /\ sub' = o
        /\ sresult' = IF o.kind = "ok" THEN ExtractId(o.stdout)
                      ELSE [kind |-> o.kind, jobid |-> << >>, raw |-> << >>]
  /\ stale' = {}
  /\ spc' = IF sresult'.kind = "returned" THEN "returned" ELSE "raised"
  /\ UNCHANGED << qvars, fvars, kvars, tvars >>

\* the output files of an earlier run of the task that exist at the call
InitSubmit ==
  /\ spc = "call"
  /\ stale \in SUBSET {"stdout", "stderr"}
  /\ sub = [kind |-> "none", stdout |-> << >>]
  /\ sresult = NoSubmit
  /\ QacctIdle /\ FilterIdle /\ KillIdle /\ QstatIdle

NextSubmit == submit_job

SpecSubmit == InitSubmit /\ [][NextSubmit]_vars

\* C15: when sbatch exits zero, the returned job id is the first run of
\* digits after 'job ' in stdout; when there is no such match, submit_job
\* fails with a ParseError that carries the raw stdout and returns no id.
C15_IdExtraction ==
  spc # "call" /\ sub.kind = "ok" =>
     IF MatchStarts(sub.stdout) # {}
     THEN /\ spc = "returned"
          /\ sresult.kind = "returned"
          /\ sresult.jobid = Group1(sub.stdout)
     ELSE /\ spc = "raised"
          /\ sresult.kind = "ParseError"
          /\ sresult.raw = sub.stdout
          /\ sresult.jobid = << >>

\* ========================================================== _qstat_all ====
MaxOut == 7
QstatAlphabet == {"a", "b", " ", "\n"}

QstatTexts ==
  UNION {[1..n -> QstatAlphabet] : n \in 0..MaxOut}
    \cup {<<"a", " ", "b", "\n", "a", " ", "a", "\n", "a", " ", "b">>,
          <<"a", " ", "b", "\n", "b", " ", "a", " ", "a", "\n", "\n", "a">>,
          <<" ", "JOBID", "\t", "ST", " ", "\n", " ", " ", "7", " ", "C", "D",
            "\n", "8", " ", " ", "R", "\n">>}

QstatOutcomes ==
  {[kind |-> "ok", stdout |-> t] : t \in QstatTexts} \cup SqueueOutcomes

\* one call of _qstat_all()
qstat_call ==
  /\ tpc = "call"
  /\ \E o \in QstatOutcomes :
        /\ squeue' = o
        /\ bjobs' = qstat_all(o)
  /\ tpc' = "returned"
  /\ UNCHANGED << qvars, fvars, kvars, svars >>

InitQstat ==
  /\ tpc = "call"
  /\ squeue = [kind |-> "none", stdout |-> << >>]
  /\ bjobs = EmptyDict
  /\ QacctIdle /\ FilterIdle /\ KillIdle /\ SubmitIdle

NextQstat == qstat_call

SpecQstat == InitQstat /\ [][NextQstat]_vars

\* the listing that was parsed: its lines as fields, its headers, the first
\* fields of the lines after the header line
Listing == FieldLines(squeue.stdout)
ListingHeaders == Listing[1]
ListingKeys == { Listing[n][1] : n \in 2..Len(Listing) }
LastLineOf(k) ==
  CHOOSE n \in 2..Len(Listing) :
     Listing[n][1] = k /\ \A m \in 2..Len(Listing) : Listing[m][1] = k => m <= n
Width(n) == Min(Len(ListingHeaders), Len(Listing[n]))
QstatParsed == tpc = "returned" /\ squeue.kind = "ok"

\* C17 as stated: when squeue succeeds, the keys of the table are the first
\* fields of the lines after the first, and for every such line the entry of
\* its first field maps each header to the field at the same position.
C17_AsStated ==
  QstatParsed =>
     /\ DOMAIN bjobs = ListingKeys
     /\ \A n \in 2..Len(Listing) :
           /\ Listing[n][1] \in DOMAIN bjobs
           /\ \A c \in 1..Len(ListingHeaders) :
                 /\ ListingHeaders[c] \in DOMAIN bjobs[Listing[n][1]]
                 /\ c <= Len(Listing[n])
                 /\ bjobs[Listing[n][1]][ListingHeaders[c]] = Listing[n][c]

\* C17 (amended): when squeue succeeds, the headers and fields are the
\* whitespace-free pieces of the lines, the keys of the table are the first
\* fields of the lines after the first, and the entry of a key is built from
\* the last line that starts with it: its row has the headers at the
\* positions where that line has a field, and maps a header to the field at
\* the last such position where the header stands.
C17_TableParsing ==
  QstatParsed =>
     /\ \A n \in 1..Len(Listing) : \A c \in 1..Len(Listing[n]) :
           ~HasWhitespace(Listing[n][c])
     /\ DOMAIN bjobs = ListingKeys
     /\ \A k \in ListingKeys :
           LET n == LastLineOf(k)
           IN  /\ DOMAIN bjobs[k] = { ListingHeaders[c] : c \in 1..Width(n) }
               /\ \A c \in 1..Width(n) :
                     (\A d \in (c + 1)..Width(n) :
                         ListingHeaders[d] # ListingHeaders[c]) =>
                        bjobs[k][ListingHeaders[c]] = Listing[n][c]

C17_Witness ==
  /\ tpc = "returned"
  /\ squeue.stdout = <<"a", " ", "b", "\n", "a", " ", "a", "\n", "a", " ", "b">>
  /\ bjobs = DictSet(EmptyDict, <<"a">>,
                     DictSet(DictSet(EmptyDict, <<"a">>, <<"a">>), <<"b">>, <<"b">>))

====
